---- MODULE Spec2Model ----
(***************************************************************************)
(* A model of fuxx.cpp: a single-threaded memory latency benchmark.        *)
(* main() resolves its arguments into the globals memUsage, diskUsage and  *)
(* timeFactor, then runs memoryLatencyRead() and memoryLatencyWrite().     *)
(*                                                                         *)
(* Scaling.  The program's sizes (1024*1024 bytes per MiB, 300000000      *)
(* operations at 100%) are far beyond explicit-state checking, so the      *)
(* number of bytes in one MiB and the base operation count are the two     *)
(* bounds MiB and BaseOps.  Every other number is the program's own.       *)
(* size_t and uint64_t are taken to be 64 bits wide (LP64); no value of    *)
(* the program reaches 2^64 (memUsage <= 2^40, nrTries < 2^39,             *)
(* dummy <= 255 * nrTries < 2^47), so the arithmetic below never wraps.    *)
(***************************************************************************)
EXTENDS Integers, Sequences, FiniteSets

\* Bytes per MiB in the model (the program: 1024 * 1024, fuxx.cpp:141).
MiB == 49
\* Operations at timeFactor 100 in the model (the program: 300000000, fuxx.cpp:59).
BaseOps == 100

VARIABLES
  pc,          \* the position of the program
  argc,        \* main's argc (the program name counts)
  argv,        \* argv[1..argc-1], each a string: a sequence of characters
  memUsage,    \* global size_t memUsage
  diskUsage,   \* global size_t diskUsage
  timeFactor,  \* global size_t timeFactor
  dummy,       \* global uint64_t dummy
  heap,        \* the live new[] blocks: block id -> array of bytes
  nalloc,      \* number of blocks allocated so far (the next block is nalloc + 1)
  p,           \* the running benchmark's local p (a block id; 0 before the first new)
  pos,         \* the running benchmark's local pos
  nrTries,     \* the running benchmark's local nrTries
  i,           \* the loop variable of the benchmark's timed loop
  timed,       \* TRUE between start = timeNow() and end = timeNow()
  out,         \* what was written to std::cout, one record per item
  exitStatus   \* main's return value, -1 while the process has not returned

vars == <<pc, argc, argv, memUsage, diskUsage, timeFactor, dummy, heap, nalloc,
          p, pos, nrTries, i, timed, out, exitStatus>>

----------------------------------------------------------------------------
\* Strings.  A character is coded 0..9 for '0'..'9' and 10 for any other
\* character; a string is a sequence of characters.

IsDigit(c) == c \in 0..9

\* std::stoul throws std::invalid_argument unless the string starts with a digit
\* (leading white space and signs are not among the modelled characters).
Numeric(s) == Len(s) > 0 /\ IsDigit(s[1])

RECURSIVE StoulFrom(_, _, _)
StoulFrom(s, k, acc) ==
  IF k > Len(s) \/ ~IsDigit(s[k]) THEN acc
  ELSE StoulFrom(s, k + 1, acc * 10 + s[k])

\* std::stoul(s): the value of the longest prefix of digits, base 10.
Stoul(s) == StoulFrom(s, 1, 0)

----------------------------------------------------------------------------
\* main's argument resolution (fuxx.cpp:131-149).

\* ClampMem with the upper clamp the source's comment speaks of (1 TiB)
ClampMemTiB(m) ==
  LET a == IF m > 0 THEN m ELSE 128
  IN  IF a < 1024 * 1024 THEN a ELSE 1024 * 1024

\* memUsage > 0 ? memUsage : 128, then memUsage < 1024 * 1024 ? memUsage : 1024
ClampMem(m) ==
  LET a == IF m > 0 THEN m ELSE 128
  IN  IF a < 1024 * 1024 THEN a ELSE 1024

\* diskUsage >= 16 ? diskUsage : 16, then diskUsage < 1024 * 1024 ? diskUsage : 1024
ClampDisk(d) ==
  LET a == IF d >= 16 THEN d ELSE 16
  IN  IF a < 1024 * 1024 THEN a ELSE 1024

\* ClampTime with the upper test off by one (<= 1000)
ClampTimeInclusive(t) ==
  LET a == IF t > 0 THEN t ELSE 100
  IN  IF a <= 1000 THEN a ELSE 100

\* timeFactor > 0 ? timeFactor : 100, then timeFactor < 1000 ? timeFactor : 100
ClampTime(t) ==
  LET a == IF t > 0 THEN t ELSE 100
  IN  IF a < 1000 THEN a ELSE 100

\* x *= 1024 * 1024 ("go to bytes")
ToBytes(x) == x * MiB

----------------------------------------------------------------------------
\* The benchmarks' arithmetic.

\* NrTries dividing before it multiplies
NrTriesDivFirst(tf) == BaseOps * (tf \div 100)

\* 300000000 * timeFactor / 100
NrTries(tf) == (BaseOps * tf) \div 100

\* InitBuffer with % 0xff for & 0xff
InitBufferMod255(n) == [j \in 0..(n - 1) |-> j % 255]

\* for (i = 0; i < n; ++i) p[i] = i & 0xff, on a fresh new uint8_t[n]
InitBuffer(n) == [j \in 0..(n - 1) |-> j % 256]

\* Advance by one cache line, without the factor 17
AdvanceOneLine(q) == q + 64

\* pos += 17*64
Advance(q) == q + 17 * 64

\* MustWrap with > for >=
MustWrapStrict(q, n) == q > n

\* the condition of while (pos >= memUsage)
MustWrap(q, n) == q >= n

\* the value the write benchmark stores in iteration k: k % 0xff, as a uint8_t
WriteValue(k) == (k % 255) % 256

\* one item written to std::cout
Item(kind, val) == [kind |-> kind, val |-> val]

----------------------------------------------------------------------------
\* Inputs.

BadArg == <<10>>

\* "1", "2", "23": buffers of 1 MiB, 2 MiB and 23 MiB (the last one longer than
\* the stride, as every buffer of the program is)
MemArgs == { <<1>>, <<2>>, <<2, 3>>, BadArg }
\* "7", "20", "1048576"
DiskArgs == { <<7>>, <<2, 0>>, <<1, 0, 4, 8, 5, 7, 6>>, BadArg }
\* "2", "300"
TimeArgs == { <<2>>, <<3, 0, 0>>, BadArg }

ArgvSets(n, M, D, T) ==
  IF n = 1 THEN { << >> }
  ELSE IF n = 2 THEN { <<a>> : a \in M }
  ELSE IF n = 3 THEN { <<a, b>> : a \in M, b \in D }
  ELSE { <<a, b, c>> : a \in M, b \in D, c \in T }

InitWith(M, D, T) ==
  /\ argc \in 1..4
  /\ argv \in ArgvSets(argc, M, D, T)
  /\ pc = "main"
  /\ memUsage = 0
  /\ diskUsage = 0
  /\ timeFactor = 100
  /\ dummy = 0
  /\ heap = << >>
  /\ nalloc = 0
  /\ p = 0
  /\ pos = 0
  /\ nrTries = 0
  /\ i = 0
  /\ timed = FALSE
  /\ out = << >>
  /\ exitStatus = -1

Init == InitWith(MemArgs, DiskArgs, TimeArgs)

\* Inputs for the argument handling alone, around every threshold of main.
\* "0", "1", "127", "1048575", "1048576", "1048577"
WideMemArgs ==
  { <<0>>, <<1>>, <<1, 2, 7>>, <<1, 0, 4, 8, 5, 7, 5>>, <<1, 0, 4, 8, 5, 7, 6>>,
    <<1, 0, 4, 8, 5, 7, 7>>, BadArg }
\* "0", "15", "16", "17", "1048575", "1048576", "2000000"
WideDiskArgs ==
  { <<0>>, <<1, 5>>, <<1, 6>>, <<1, 7>>, <<1, 0, 4, 8, 5, 7, 5>>,
    <<1, 0, 4, 8, 5, 7, 6>>, <<2, 0, 0, 0, 0, 0, 0>>, BadArg }
\* "0", "1", "10", "999", "1000", "1001", "12x"
WideTimeArgs ==
  { <<0>>, <<1>>, <<1, 0>>, <<9, 9, 9>>, <<1, 0, 0, 0>>, <<1, 0, 0, 1>>,
    <<1, 2, 10>>, BadArg }

ArgInit == InitWith(WideMemArgs, WideDiskArgs, WideTimeArgs)

----------------------------------------------------------------------------
\* main (fuxx.cpp:121-156)

benchVars == <<heap, nalloc, p, pos, nrTries, i, timed>>

\* Usage returning 1, as for an error
UsageReturnsOne ==
  /\ pc = "main"
  /\ argc < 3
  /\ out' = Append(out, Item("Usage: ", 0))
  /\ exitStatus' = 1
  /\ pc' = "exit"
  /\ UNCHANGED <<argc, argv, memUsage, diskUsage, timeFactor, dummy, benchVars>>

\* if (argc < 3) { print usage; return 0; }
Usage ==
  /\ pc = "main"
  /\ argc < 3
  /\ out' = Append(out, Item("Usage: ", 0))
  /\ exitStatus' = 0
  /\ pc' = "exit"
  /\ UNCHANGED <<argc, argv, memUsage, diskUsage, timeFactor, dummy, benchVars>>

\* the process is killed: an uncaught exception (std::invalid_argument from
\* std::stoul, std::bad_alloc from new) ends in std::terminate; so does a fault
Terminate ==
  /\ pc' = "terminated"
  /\ UNCHANGED <<argc, argv, memUsage, diskUsage, timeFactor, dummy, benchVars,
                 out, exitStatus>>

\* lines 131-134
ParseMem ==
  /\ pc = "main"
  /\ argc >= 3
  /\ IF Numeric(argv[1])
     THEN /\ memUsage' = ClampMem(Stoul(argv[1]))
          /\ out' = Append(out, Item("Memory usage in MiB: ", memUsage'))
          /\ pc' = "parse_disk"
          /\ UNCHANGED <<argc, argv, diskUsage, timeFactor, dummy, benchVars,
                         exitStatus>>
     ELSE Terminate

\* lines 136-139
ParseDisk ==
  /\ pc = "parse_disk"
  /\ IF Numeric(argv[2])
     THEN /\ diskUsage' = ClampDisk(Stoul(argv[2]))
          /\ out' = Append(out, Item("Disk   usage in MiB: ", diskUsage'))
          /\ pc' = "to_bytes"
          /\ UNCHANGED <<argc, argv, memUsage, timeFactor, dummy, benchVars,
                         exitStatus>>
     ELSE Terminate

\* lines 141-142
GoToBytes ==
  /\ pc = "to_bytes"
  /\ memUsage' = ToBytes(memUsage)
  /\ diskUsage' = ToBytes(diskUsage)
  /\ pc' = "parse_time"
  /\ UNCHANGED <<argc, argv, timeFactor, dummy, benchVars, out, exitStatus>>

\* lines 144-149
ParseTime ==
  /\ pc = "parse_time"
  /\ IF argc >= 4
     THEN IF Numeric(argv[3])
          THEN /\ timeFactor' = ClampTime(Stoul(argv[3]))
               /\ out' = Append(out, Item("Time factor        : ", timeFactor'))
               /\ pc' = "read"
               /\ UNCHANGED <<argc, argv, memUsage, diskUsage, dummy, benchVars,
                              exitStatus>>
          ELSE Terminate
     ELSE /\ pc' = "read"
          /\ UNCHANGED <<argc, argv, memUsage, diskUsage, timeFactor, dummy,
                         benchVars, out, exitStatus>>

----------------------------------------------------------------------------
\* The heap of new[] blocks.

\* new uint8_t[n], then the initialising loop
New(h, b, n) == [c \in DOMAIN h \cup {b} |-> IF c = b THEN InitBuffer(n) ELSE h[c]]

\* Delete that frees nothing (the delete [] forgotten)
DeleteLeak(h, b) == h

\* delete [] p
Delete(h, b) == [c \in DOMAIN h \ {b} |-> h[c]]

\* What reading p[q] can yield.  Inside the block it is the byte stored there;
\* outside it the behaviour is undefined: any byte, or (256) a fault.
Loaded(h, b, q) == IF q \in DOMAIN h[b] THEN { h[b][q] } ELSE 0..256

\* What p[q] = v can leave the heap as.  Outside the block the behaviour is
\* undefined: the block is left as it is (the byte lands elsewhere), or (<<>>) a fault.
Stored(h, b, q, v) ==
  IF q \in DOMAIN h[b] THEN { [h EXCEPT ![b][q] = v] } ELSE { h, << >> }

\* report(operation, totalTime, nrOps); the elapsed time is a reading of the
\* clock and is not part of the model
Report(o, operation, nrOps) == Append(o, Item(operation, nrOps))

----------------------------------------------------------------------------
\* The benchmarks.

\* BufferSize taken from the other size global
BufferSizeDisk == diskUsage

\* the size both benchmarks allocate: new uint8_t[memUsage]
BufferSize == memUsage

----------------------------------------------------------------------------
\* memoryLatencyRead (fuxx.cpp:47-80)

\* new throws std::bad_alloc, which nothing catches
ReadAllocFail ==
  /\ pc = "read"
  /\ Terminate

\* lines 48-65: banner, new, pos, nrTries, the initialising loop, start = timeNow()
ReadBegin ==
  /\ pc = "read"
  /\ out' = Append(out, Item("memoryLatencyRead:", 0))
  /\ nalloc' = nalloc + 1
  /\ p' = nalloc'
  /\ heap' = New(heap, p', BufferSize)
  /\ pos' = 0
  /\ nrTries' = NrTries(timeFactor)
  /\ i' = 0
  /\ timed' = TRUE
  /\ pc' = "r_loop"
  /\ UNCHANGED <<argc, argv, memUsage, diskUsage, timeFactor, dummy, exitStatus>>

\* lines 67-69: i < nrTries; dummy += p[pos]; pos += 17*64
ReadAccess ==
  /\ pc = "r_loop"
  /\ i < nrTries
  /\ \E v \in Loaded(heap, p, pos) :
       IF v = 256
       THEN Terminate
       ELSE /\ dummy' = dummy + v
            /\ pos' = Advance(pos)
            /\ pc' = "r_wrap"
            /\ UNCHANGED <<argc, argv, memUsage, diskUsage, timeFactor, heap,
                           nalloc, p, nrTries, i, timed, out, exitStatus>>

\* lines 70-72, the loop's condition holds: pos -= memUsage
ReadWrap ==
  /\ pc = "r_wrap"
  /\ MustWrap(pos, memUsage)
  /\ pos' = pos - memUsage
  /\ UNCHANGED <<pc, argc, argv, memUsage, diskUsage, timeFactor, dummy, heap,
                 nalloc, p, nrTries, i, timed, out, exitStatus>>

\* lines 70 and 67, the loop's condition fails: ++i and back to the loop's head
ReadNext ==
  /\ pc = "r_wrap"
  /\ ~MustWrap(pos, memUsage)
  /\ i' = i + 1
  /\ pc' = "r_loop"
  /\ UNCHANGED <<argc, argv, memUsage, diskUsage, timeFactor, dummy, heap,
                 nalloc, p, pos, nrTries, timed, out, exitStatus>>

\* lines 75-77: the loop is over; end = timeNow(); delete [] p
ReadEnd ==
  /\ pc = "r_loop"
  /\ ~(i < nrTries)
  /\ timed' = FALSE
  /\ heap' = Delete(heap, p)
  /\ pc' = "r_report"
  /\ UNCHANGED <<argc, argv, memUsage, diskUsage, timeFactor, dummy, nalloc, p,
                 pos, nrTries, i, out, exitStatus>>

\* line 79
ReadReport ==
  /\ pc = "r_report"
  /\ out' = Report(out, "single byte read", nrTries)
  /\ pc' = "write"
  /\ UNCHANGED <<argc, argv, memUsage, diskUsage, timeFactor, dummy, benchVars,
                 exitStatus>>

----------------------------------------------------------------------------
\* memoryLatencyWrite (fuxx.cpp:84-117)

WriteAllocFail ==
  /\ pc = "write"
  /\ Terminate

\* lines 85-102
WriteBegin ==
  /\ pc = "write"
  /\ out' = Append(out, Item("memoryLatencyWrite:", 0))
  /\ nalloc' = nalloc + 1
  /\ p' = nalloc'
  /\ heap' = New(heap, p', BufferSize)
  /\ pos' = 0
  /\ nrTries' = NrTries(timeFactor)
  /\ i' = 0
  /\ timed' = TRUE
  /\ pc' = "w_loop"
  /\ UNCHANGED <<argc, argv, memUsage, diskUsage, timeFactor, dummy, exitStatus>>

\* lines 104-106: i < nrTries; p[pos] = i % 0xff; pos += 17*64
WriteAccess ==
  /\ pc = "w_loop"
  /\ i < nrTries
  /\ \E h \in Stored(heap, p, pos, WriteValue(i)) :
       IF h = << >>
       THEN Terminate
       ELSE /\ heap' = h
            /\ pos' = Advance(pos)
            /\ pc' = "w_wrap"
            /\ UNCHANGED <<argc, argv, memUsage, diskUsage, timeFactor, dummy,
                           nalloc, p, nrTries, i, timed, out, exitStatus>>

\* lines 107-109
WriteWrap ==
  /\ pc = "w_wrap"
  /\ MustWrap(pos, memUsage)
  /\ pos' = pos - memUsage
  /\ UNCHANGED <<pc, argc, argv, memUsage, diskUsage, timeFactor, dummy, heap,
                 nalloc, p, nrTries, i, timed, out, exitStatus>>

\* lines 107 and 104
WriteNext ==
  /\ pc = "w_wrap"
  /\ ~MustWrap(pos, memUsage)
  /\ i' = i + 1
  /\ pc' = "w_loop"
  /\ UNCHANGED <<argc, argv, memUsage, diskUsage, timeFactor, dummy, heap,
                 nalloc, p, pos, nrTries, timed, out, exitStatus>>

\* lines 112-114
WriteEnd ==
  /\ pc = "w_loop"
  /\ ~(i < nrTries)
  /\ timed' = FALSE
  /\ heap' = Delete(heap, p)
  /\ pc' = "w_report"
  /\ UNCHANGED <<argc, argv, memUsage, diskUsage, timeFactor, dummy, nalloc, p,
                 pos, nrTries, i, out, exitStatus>>

\* line 116
WriteReport ==
  /\ pc = "w_report"
  /\ out' = Report(out, "single byte write", nrTries)
  /\ pc' = "main_end"
  /\ UNCHANGED <<argc, argv, memUsage, diskUsage, timeFactor, dummy, benchVars,
                 exitStatus>>

\* main, lines 154-155
MainEnd ==
  /\ pc = "main_end"
  /\ out' = Append(out, Item("Please ignore: ", dummy))
  /\ exitStatus' = 0
  /\ pc' = "exit"
  /\ UNCHANGED <<argc, argv, memUsage, diskUsage, timeFactor, dummy, benchVars>>

----------------------------------------------------------------------------
MainArgs == Usage \/ ParseMem \/ ParseDisk \/ GoToBytes \/ ParseTime

ReadBenchmark ==
  ReadAllocFail \/ ReadBegin \/ ReadAccess \/ ReadWrap \/ ReadNext \/ ReadEnd
    \/ ReadReport

WriteBenchmark ==
  WriteAllocFail \/ WriteBegin \/ WriteAccess \/ WriteWrap \/ WriteNext
    \/ WriteEnd \/ WriteReport

Next == MainArgs \/ ReadBenchmark \/ WriteBenchmark \/ MainEnd

\* The whole program on small buffers.
Spec == Init /\ [][Next]_vars

\* main's argument handling (lines 121-149) on inputs around every threshold.
ArgSpec == ArgInit /\ [][MainArgs]_vars

\* The program is one thread that takes its next step whenever it has one.
LiveSpec == Spec /\ WF_vars(Next)

----------------------------------------------------------------------------
\* Where the program is.

\* the globals hold bytes: line 142 has run
InBytes ==
  argc >= 3 /\ pc \notin {"main", "parse_disk", "to_bytes", "terminated"}

\* lines 144-149 have run
TimeResolved == InBytes /\ pc # "parse_time"

ReadPhase == {"r_loop", "r_wrap"}
WritePhase == {"w_loop", "w_wrap"}

\* memoryLatencyRead has returned
ReadDone == pc \in {"write", "w_loop", "w_wrap", "w_report", "main_end"}
            \/ (pc = "exit" /\ argc >= 3)

\* the k-th offset of the access pattern on a buffer of n bytes
Offset(k, n) == (1088 * k) % n

\* the sum of cell[Offset(j, n)] for j in [lo, hi), with cell[x] = x mod 256
RECURSIVE SumRange(_, _, _)
SumRange(n, lo, hi) ==
  IF lo >= hi THEN 0
  ELSE IF hi = lo + 1 THEN Offset(lo, n) % 256
  ELSE LET mid == (lo + hi) \div 2
       IN  SumRange(n, lo, mid) + SumRange(n, mid, hi)

\* the sum over the first k offsets
SumReads(n, k) == SumRange(n, 0, k)

\* the operation count of the resolved time factor
NrOps == (BaseOps * timeFactor) \div 100

\* the buffer of n bytes after the first k iterations of the write loop: a
\* cell holds what the last iteration that visited it stored, j mod 255
Written(n, k) ==
  [x \in 0..(n - 1) |->
     LET visits == { j \in 0..(k - 1) : Offset(j, n) = x }
     IN  IF visits = {} THEN x % 256
         ELSE (CHOOSE j \in visits : \A l \in visits : l <= j) % 255]

Printed(item) == \E k \in 1..Len(out) : out[k] = item

----------------------------------------------------------------------------
\* C1: in the write benchmark the value stored by iteration k is k mod 256: when
\* the loop is back at its head after iteration i - 1, the cell that iteration
\* wrote holds (i - 1) mod 256; at the end of the loop this is the cell of the
\* last iteration holding (nrOps - 1) mod 256.
C1_WriteStoresIndexMod256 ==
  (pc = "w_loop" /\ i > 0) =>
    heap[p][Offset(i - 1, memUsage)] = (i - 1) % 256

\* C2: the offset used by iteration k of either timed loop is (1088 * k) mod N.
C2_OffsetIsStrideTimesK ==
  (pc \in {"r_loop", "w_loop"}) => pos = (1088 * i) % memUsage

\* both loops have run through offsets that needed several subtractions
C2_Witness ==
  /\ pc = "w_loop"
  /\ i = nrTries
  /\ i >= 100
  /\ memUsage < 1088
  /\ pos # 0

\* C3: the accumulator starts at 0; at the head of the read loop it is the sum
\* over k in [0, i) of buffer[(1088 * k) mod N] with buffer[x] = x mod 256, so
\* when the loop is over (i = nrOps) it is that sum over [0, nrOps); no step
\* outside the read loop changes it, and it is the value printed last.
C3_AccumulatorIsSumOfReads ==
  /\ [](pc = "r_loop" => dummy = SumReads(memUsage, i))
  /\ [][pc \notin ReadPhase => dummy' = dummy]_vars
  /\ []((pc = "exit" /\ argc >= 3) =>
          /\ dummy = SumReads(memUsage, NrOps)
          /\ out[Len(out)] = Item("Please ignore: ", dummy))

C3_Witness ==
  /\ pc = "exit"
  /\ argc >= 3
  /\ memUsage > 256
  /\ nrTries >= 100
  /\ dummy > 255

\* C4: for a parsed memUsageMiB m the memory size in bytes is 128 MiB if m = 0,
\* 1024 MiB if m >= 1048576 and m MiB otherwise, so it lies in [1 MiB, 1 TiB].
C4_MemResolution ==
  InBytes =>
    LET m == Stoul(argv[1])
    IN  /\ memUsage = IF m = 0 THEN 128 * MiB
                      ELSE IF m >= 1048576 THEN 1024 * MiB
                      ELSE m * MiB
        /\ memUsage >= MiB
        /\ memUsage <= 1024 * 1024 * MiB

C4_Witness ==
  /\ InBytes
  /\ Stoul(argv[1]) > 1048576
  /\ memUsage = 1024 * MiB

C6_ExactlyNrOpsIterations ==
  /\ pc \in ReadPhase \cup WritePhase => nrTries = NrOps /\ i <= NrOps
  /\ pc \in {"r_wrap", "w_wrap"} => i < NrOps
  /\ pc \in {"r_report", "w_report"} => i = NrOps
  /\ ReadDone => Printed(Item("single byte read", NrOps))
  /\ (pc = "main_end" \/ (pc = "exit" /\ argc >= 3)) =>
       Printed(Item("single byte write", NrOps))

C6_Witness ==
  /\ pc = "main_end"
  /\ timeFactor = 2
  /\ i = (BaseOps * 2) \div 100
  /\ i > 0

\* C7: with argc < 3 the program prints the usage banner and returns 0; it
\* parses nothing, allocates nothing, runs no benchmark and leaves the
\* accumulator and the configuration as they were.
C7_UsageOnly ==
  argc < 3 =>
    /\ pc \in {"main", "exit"}
    /\ memUsage = 0 /\ diskUsage = 0 /\ timeFactor = 100 /\ dummy = 0
    /\ nalloc = 0 /\ DOMAIN heap = {} /\ ~timed /\ nrTries = 0 /\ i = 0
    /\ pc = "main" => out = << >> /\ exitStatus = -1
    /\ pc = "exit" => out = <<Item("Usage: ", 0)>> /\ exitStatus = 0

C7_Witness == argc = 2 /\ pc = "exit" /\ exitStatus = 0 /\ Len(out) = 1

\* C8: the read benchmark is over (its report is printed) before the write
\* benchmark starts; each benchmark has its own block, allocated at its start
\* and released before it reports, so at most one block is live, the write
\* benchmark's block is a fresh, newly initialised one, and none is live at exit.
C8_OneBufferAtATime ==
  /\ Cardinality(DOMAIN heap) <= 1
  /\ pc \in ReadPhase => DOMAIN heap = {p} /\ p = 1
  /\ pc \in WritePhase => DOMAIN heap = {p} /\ p = 2
  /\ pc \notin ReadPhase \cup WritePhase => DOMAIN heap = {}
  /\ pc \in {"write", "w_report"} \cup WritePhase =>
       /\ Printed(Item("single byte read", nrTries))
       /\ ~Printed(Item("single byte write", nrTries))
  /\ (pc = "w_loop" /\ i = 0) => heap[p] = [j \in 0..(memUsage - 1) |-> j % 256]
  /\ pc \in {"r_report", "read"} \cup ReadPhase =>
       ~Printed(Item("memoryLatencyWrite:", 0))

C8_Witness ==
  /\ pc = "exit"
  /\ argc >= 3
  /\ nalloc = 2
  /\ DOMAIN heap = {}

\* C9: for a parsed diskUsageMiB d the disk size in bytes is 16 MiB if d < 16,
\* 1024 MiB if d >= 1048576 and d MiB otherwise; no benchmark reads it: the
\* iteration count, the offsets, the buffer and the accumulator are functions
\* of the memory and time arguments and of the progress alone.
C9_DiskResolvedAndUnused ==
  /\ InBytes =>
       LET d == Stoul(argv[2])
       IN  diskUsage = IF d < 16 THEN 16 * MiB
                       ELSE IF d >= 1048576 THEN 1024 * MiB
                       ELSE d * MiB
  /\ pc \in ReadPhase \cup WritePhase =>
       LET m == Stoul(argv[1])
           n == IF m = 0 THEN 128 * MiB
                ELSE IF m >= 1048576 THEN 1024 * MiB
                ELSE m * MiB
           t == IF argc >= 4 THEN Stoul(argv[3]) ELSE 100
           ops == (BaseOps * (IF t = 0 \/ t >= 1000 THEN 100 ELSE t)) \div 100
       IN  /\ nrTries = ops
           /\ DOMAIN heap[p] = 0..(n - 1)
           /\ pc \in {"r_loop", "w_loop"} => pos = (1088 * i) % n
           /\ pc \in ReadPhase => heap[p] = [j \in 0..(n - 1) |-> j % 256]
           /\ pc = "r_loop" => dummy = SumReads(n, i)
           /\ (pc = "w_loop" /\ i = ops) =>
                /\ dummy = SumReads(n, ops)
                /\ heap[p] = Written(n, ops)

C9_Witness ==
  /\ pc = "w_loop"
  /\ i = nrTries
  /\ i > 0
  /\ Stoul(argv[2]) >= 1048576
  /\ diskUsage = 1024 * MiB

\* C10: at every access of either timed loop 0 <= pos < N, inside the
\* allocated block, and the wrap-around loop always comes to an end.
C10_InBoundsAndWrapTerminates ==
  /\ []((pc \in {"r_loop", "w_loop"} /\ i < nrTries) =>
          (0 <= pos /\ pos < memUsage /\ pos \in DOMAIN heap[p]))
  /\ (pc \in {"r_wrap", "w_wrap"}) ~> (pc \in {"r_loop", "w_loop"})

\* the wrap-around loop has subtracted more than once and the loop went on
C10_Witness ==
  /\ pc = "w_loop"
  /\ i > 49
  /\ i < nrTries
  /\ memUsage < 1088
  /\ pos = 0
====
